---- MODULE Spec2Model ----
(***************************************************************************)
(* Model of the EIA bulk-data connector: the batch Supervisor              *)
(* (src/main.py), the single-dataset unit (src/process_dataset.py) and the *)
(* per-line record normalisation used by both flows                        *)
(* (src/process_dataset.py, src/assets/prices/prices.py).                  *)
(***************************************************************************)
EXTENDS Integers, Sequences, FiniteSets, TLC

(* ------------------------------------------------------------------ *)
(* Bounds of the model                                                 *)
(* ------------------------------------------------------------------ *)

\* number of catalog entries of EIA_HISTORICAL_DATASETS the model keeps
NumDatasets == 2
\* number of batch runs (invocations of main.py) in one behaviour
MaxRuns == 3
\* seconds a slow upload of a unit takes (a fast one takes 0)
StepSecs == 600
\* longest blob, in lines, of the per-line specification
MaxLines == 3
\* number of times in one behaviour that the environment leaves the nominal
\* case (a download or upload that fails or is slow, a blob other than the
\* nominal one, memory exhaustion, a timeout, a unit that cannot be started)
MaxFaults == 2

(* ------------------------------------------------------------------ *)
(* Program constants                                                   *)
(* ------------------------------------------------------------------ *)

\* main.py:130  if days_ago >= 30
FRESH_DAYS == 30
\* main.py:80   timeout=1200
TIMEOUT == 1200
\* timedelta.days counts whole periods of 86400 seconds (main.py:128)
SECONDS_PER_DAY == 86400

\* KiB in one GiB: the model counts memory in KiB (main.py:37 counts bytes)
KIB_PER_GIB == 1048576
\* os.getenv('MAX_PROCESS_MEMORY', '4')  (main.py:33), and the 4 GiB of
\* main.py:41
DEFAULT_GB == 4

\* main.py:14-26, in declaration order
EIA_HISTORICAL_DATASETS ==
    << [code |-> "COAL", name |-> "Coal", zip_path |-> "COAL.zip"],
       [code |-> "EBA", name |-> "U.S. Electric System Operating Data", zip_path |-> "EBA.zip"],
       [code |-> "ELEC", name |-> "Electricity", zip_path |-> "ELEC.zip"],
       [code |-> "EMISS", name |-> "CO2 Emissions", zip_path |-> "EMISS.zip"],
       [code |-> "INTL", name |-> "International Energy Data", zip_path |-> "INTL.zip"],
       [code |-> "NG", name |-> "Natural Gas", zip_path |-> "NG.zip"],
       [code |-> "NUC_STATUS", name |-> "U.S. Nuclear Outages", zip_path |-> "NUC_STATUS.zip"],
       [code |-> "PET", name |-> "Petroleum and other liquid fuels", zip_path |-> "PET.zip"],
       [code |-> "PET_IMPORTS", name |-> "Crude Oil Imports", zip_path |-> "PET_IMPORTS.zip"],
       [code |-> "SEDS", name |-> "State Energy Data System (SEDS)", zip_path |-> "SEDS.zip"],
       [code |-> "TOTAL", name |-> "Total Energy", zip_path |-> "TOTAL.zip"] >>

\* the catalog the model iterates over: the first NumDatasets entries
Catalog == SubSeq(EIA_HISTORICAL_DATASETS, 1, NumDatasets)

Codes == {Catalog[i].code : i \in 1..Len(Catalog)}

\* str.lower() on the catalog's codes
Lower(code) ==
    CASE code = "COAL" -> "coal"
      [] code = "EBA" -> "eba"
      [] code = "ELEC" -> "elec"
      [] code = "EMISS" -> "emiss"
      [] code = "INTL" -> "intl"
      [] code = "NG" -> "ng"
      [] code = "NUC_STATUS" -> "nuc_status"
      [] code = "PET" -> "pet"
      [] code = "PET_IMPORTS" -> "pet_imports"
      [] code = "SEDS" -> "seds"
      [] code = "TOTAL" -> "total"

\* f"{dataset_code.lower()}_series" / f"{dataset_code.lower()}_prices"
Key(code, kind) == <<Lower(code), kind>>

Kinds == {"series", "prices"}

Keys == {Key(c, k) : c \in Codes, k \in Kinds}

(* ------------------------------------------------------------------ *)
(* JSON values and the Python conversions applied to them              *)
(* ------------------------------------------------------------------ *)

\* a decoded JSON value: its Python type and its literal
Num(v) == [t |-> "num", v |-> v]
Str(v) == [t |-> "str", v |-> v]
Null == [t |-> "null", v |-> "null"]
JTrue == [t |-> "bool", v |-> "true"]
JList == [t |-> "list", v |-> "[1, 2]"]
\* a key the object does not carry
Absent == [t |-> "absent", v |-> ""]

\* an integer literal of 400 digits: json.loads gives a Python int
HugeInt == Num("1e400int")

\* value not in ['NM', 'NA', None, '']  (process_dataset.py:70, prices.py:61)
IsSentinel(value) ==
    \/ value.t = "null"
    \/ value.t = "str" /\ value.v \in {"NM", "NA", ""}

\* float(value): the float, or the exception float() raises
PyFloat(value) ==
    CASE value.t = "num" ->
            IF value = HugeInt THEN [ok |-> FALSE, f |-> "OverflowError"]
            ELSE IF value.v = "150.5" THEN [ok |-> TRUE, f |-> "150.5"]
            ELSE IF value.v = "7" THEN [ok |-> TRUE, f |-> "7.0"]
            ELSE [ok |-> TRUE, f |-> "0.0"]
      [] value.t = "str" ->
            IF value.v = "12.5" THEN [ok |-> TRUE, f |-> "12.5"]
            ELSE IF value.v = " 7 " THEN [ok |-> TRUE, f |-> "7.0"]
            ELSE IF value.v = "nan" THEN [ok |-> TRUE, f |-> "nan"]
            ELSE [ok |-> FALSE, f |-> "ValueError"]
      [] value.t = "bool" -> [ok |-> TRUE, f |-> "1.0"]
      [] OTHER -> [ok |-> FALSE, f |-> "TypeError"]

\* str(date)
PyStr(value) ==
    CASE value.t = "str" -> value.v
      [] value.t = "num" -> value.v
      [] value.t = "null" -> "None"
      [] value.t = "bool" -> "True"
      [] OTHER -> value.v

(* ------------------------------------------------------------------ *)
(* Lines of a bulk export                                              *)
(* ------------------------------------------------------------------ *)

\* an element of obj['data']: a JSON list of some length, or another value
Pair(ts, value) == [is_list |-> TRUE, items |-> <<ts, value>>]
Triple == [is_list |-> TRUE, items |-> <<Str("20240103"), Num("7"), Num("7")>>]
NotAPair == [is_list |-> FALSE, items |-> <<>>]

\* obj['data']: absent, not a list, or a list of elements
NoData == [present |-> FALSE, is_list |-> FALSE, items |-> <<>>]
DataNotList == [present |-> TRUE, is_list |-> FALSE, items |-> <<>>]
Data(items) == [present |-> TRUE, is_list |-> TRUE, items |-> items]

EmptyObj == [series_id |-> Absent, dataset |-> Absent, name |-> Absent, data |-> NoData]

\* kind: "blank" (whitespace only), "badjson" (json.loads raises
\* JSONDecodeError), "null" and "array" (valid JSON, not an object),
\* "object" (a JSON object)
BlankLine == [kind |-> "blank", obj |-> EmptyObj]
BadJson == [kind |-> "badjson", obj |-> EmptyObj]
NullLine == [kind |-> "null", obj |-> EmptyObj]
ArrayLine == [kind |-> "array", obj |-> EmptyObj]
Object(sid, ds, data) ==
    [kind |-> "object",
     obj |-> [series_id |-> sid, dataset |-> ds, name |-> Str("n"), data |-> data]]

(* ------------------------------------------------------------------ *)
(* Per-line processing of process_dataset (process_dataset.py:49-83)   *)
(* ------------------------------------------------------------------ *)

\* the value conversion of one pair (process_dataset.py:69-72):
\* the float, None (dropped), or an exception that is not caught
ConvertValue(value) ==
    IF IsSentinel(value) THEN [out |-> "none", f |-> ""]
    ELSE LET r == PyFloat(value) IN
         IF r.ok THEN [out |-> "float", f |-> r.f]
         ELSE IF r.f \in {"ValueError", "TypeError"} THEN [out |-> "none", f |-> ""]
         ELSE [out |-> "raise", f |-> r.f]

\* isinstance(date_val, list) and len(date_val) == 2
IsPair(date_val) == date_val.is_list /\ Len(date_val.items) = 2

\* the loop over obj['data'] (process_dataset.py:65-80): the rows appended
\* and the exception that ended the loop, "" when it ran to its end
RECURSIVE DataLoop(_, _, _, _)
DataLoop(items, i, series_id, dataset_code) ==
    IF i > Len(items) THEN [raised |-> "", rows |-> <<>>]
    ELSE LET date_val == items[i] IN
         IF ~IsPair(date_val) THEN DataLoop(items, i + 1, series_id, dataset_code)
         ELSE LET c == ConvertValue(date_val.items[2]) IN
              IF c.out = "raise" THEN [raised |-> c.f, rows |-> <<>>]
              ELSE LET rest == DataLoop(items, i + 1, series_id, dataset_code)
                       row == [series_id |-> series_id,
                               dataset |-> dataset_code,
                               timestamp |-> PyStr(date_val.items[1]),
                               value |-> c.f]
                   IN IF c.out = "none" THEN rest
                      ELSE [raised |-> rest.raised, rows |-> <<row>> \o rest.rows]

\* HasSeriesData with the test of 'series_id' left out
HasData(obj) == obj.data.present /\ obj.data.is_list

\* 'series_id' in obj and 'data' in obj and isinstance(obj['data'], list)
HasSeriesData(obj) ==
    obj.series_id # Absent /\ obj.data.present /\ obj.data.is_list

\* metadata = {k: v for k, v in obj.items() if k != 'data'} plus
\* dataset_code and dataset_name (process_dataset.py:57-59)
Metadata(obj, dataset_code, dataset_name) ==
    [series_id |-> obj.series_id, dataset |-> obj.dataset, name |-> obj.name,
     dataset_code |-> dataset_code, dataset_name |-> dataset_name]

\* which exceptions the except clause of the line loop catches
\* (process_dataset.py:82)
CaughtByLineLoop(exc) == exc = "JSONDecodeError"

\* one iteration of the line loop: the rows the line appends to
\* series_data and prices_data, and the exception that leaves the loop
ProcessLine(line, dataset_code, dataset_name) ==
    LET exc == CASE line.kind = "badjson" -> "JSONDecodeError"
                 [] line.kind \in {"null", "array"} -> "AttributeError"
                 [] OTHER -> ""
    IN
    CASE line.kind = "blank" -> [raised |-> "", meta |-> <<>>, facts |-> <<>>]
      [] line.kind # "blank" /\ exc # "" ->
            [raised |-> IF CaughtByLineLoop(exc) THEN "" ELSE exc,
             meta |-> <<>>, facts |-> <<>>]
      [] OTHER ->
            LET m == Metadata(line.obj, dataset_code, dataset_name)
                d == IF HasSeriesData(line.obj)
                     THEN DataLoop(line.obj.data.items, 1, line.obj.series_id, dataset_code)
                     ELSE [raised |-> "", rows |-> <<>>]
            IN [raised |-> d.raised, meta |-> <<m>>, facts |-> d.rows]

\* the whole line loop over a blob from line i on
RECURSIVE ProcessLines(_, _, _, _)
ProcessLines(blob, i, dataset_code, dataset_name) ==
    IF i > Len(blob) THEN [raised |-> "", series_data |-> <<>>, prices_data |-> <<>>]
    ELSE LET r == ProcessLine(blob[i], dataset_code, dataset_name) IN
         IF r.raised # "" THEN [raised |-> r.raised, series_data |-> r.meta, prices_data |-> <<>>]
         ELSE LET rest == ProcessLines(blob, i + 1, dataset_code, dataset_name) IN
              [raised |-> rest.raised,
               series_data |-> r.meta \o rest.series_data,
               prices_data |-> r.facts \o rest.prices_data]

(* ------------------------------------------------------------------ *)
(* Per-line processing of extract_time_series_data (prices.py:45-75)   *)
(* ------------------------------------------------------------------ *)

\* one iteration of the line loop of extract_time_series_data: the rows
\* appended to prices_data and the exception that leaves the loop.
\* 'series_id' not in obj raises TypeError on null and is True on an array
ExtractLine(line, dataset_code) ==
    CASE line.kind = "blank" -> [raised |-> "", facts |-> <<>>]
      [] line.kind = "badjson" -> [raised |-> "", facts |-> <<>>]
      [] line.kind = "null" -> [raised |-> "TypeError", facts |-> <<>>]
      [] line.kind = "array" -> [raised |-> "", facts |-> <<>>]
      [] OTHER ->
            IF ~HasSeriesData(line.obj) THEN [raised |-> "", facts |-> <<>>]
            ELSE LET d == DataLoop(line.obj.data.items, 1, line.obj.series_id, dataset_code)
                 IN [raised |-> d.raised, facts |-> d.rows]

(* ------------------------------------------------------------------ *)
(* Per-line processing of extract_series_metadata (series.py:45-63)    *)
(* ------------------------------------------------------------------ *)

\* series_id.split('.')[0] on the series ids of the model
SplitDot(s) ==
    CASE s = "NUC_STATUS.OUT.US-NA.D" -> "NUC_STATUS"
      [] s = "COAL.X.A" -> "COAL"
      [] s = "EBA.Y.H" -> "EBA"
      [] OTHER -> s

\* one iteration of the line loop of extract_series_metadata: the row
\* appended to series_data and the exception that leaves the loop.
\* obj.items() raises AttributeError on null and on an array, and
\* metadata['series_id'].split raises it on a series_id that is no string
ExtractMetaLine(line) ==
    CASE line.kind = "blank" -> [raised |-> "", meta |-> <<>>]
      [] line.kind = "badjson" -> [raised |-> "", meta |-> <<>>]
      [] line.kind \in {"null", "array"} -> [raised |-> "AttributeError", meta |-> <<>>]
      [] OTHER ->
            LET obj == line.obj
                derive == obj.dataset = Absent /\ obj.series_id # Absent
            IN IF derive /\ obj.series_id.t # "str"
               THEN [raised |-> "AttributeError", meta |-> <<>>]
               ELSE [raised |-> "",
                     meta |-> << [series_id |-> obj.series_id,
                                  dataset |-> IF derive
                                              THEN Str(SplitDot(obj.series_id.v))
                                              ELSE obj.dataset,
                                  name |-> obj.name] >>]

(* ------------------------------------------------------------------ *)
(* Staleness decision of the batch scan (main.py:111-136)              *)
(* ------------------------------------------------------------------ *)

\* what load_state(key) returns: None, a mapping without 'last_updated',
\* or a mapping whose 'last_updated' is a time in seconds
NoState == [present |-> FALSE, has_last_updated |-> FALSE, last_updated |-> 0]
NoLastUpdated == [present |-> TRUE, has_last_updated |-> FALSE, last_updated |-> 0]
Checkpoint(t) == [present |-> TRUE, has_last_updated |-> TRUE, last_updated |-> t]

\* not st or 'last_updated' not in st
Missing(st) == ~st.present \/ ~st.has_last_updated

\* timedelta.days: whole days, rounded towards minus infinity
Days(delta) == delta \div SECONDS_PER_DAY

\* OldestUpdate with max() in the place of min()
NewestUpdate(series_updated, prices_updated) ==
    IF series_updated >= prices_updated THEN series_updated ELSE prices_updated

\* min(series_updated, prices_updated)
OldestUpdate(series_updated, prices_updated) ==
    IF series_updated <= prices_updated THEN series_updated ELSE prices_updated

\* days_ago = (datetime.now() - oldest_update).days
DaysAgo(series_state, prices_state, now) ==
    Days(now - OldestUpdate(series_state.last_updated, prices_state.last_updated))

\* AgedOut with > in the place of >=
AgedOutStrict(days_ago) == days_ago > FRESH_DAYS

\* if days_ago >= 30
AgedOut(days_ago) == days_ago >= FRESH_DAYS

\* needs_update of one catalog entry (main.py:117-133)
NeedsUpdate(series_state, prices_state, now) ==
    IF Missing(series_state) THEN TRUE
    ELSE IF Missing(prices_state) THEN TRUE
    ELSE AgedOut(DaysAgo(series_state, prices_state, now))

(* ------------------------------------------------------------------ *)
(* The memory limit of a unit (main.py:28-41, 50-72)                   *)
(* ------------------------------------------------------------------ *)

\* the values of the environment variable MAX_PROCESS_MEMORY: not set, or
\* a string
Unset == "<unset>"
EnvValues == {Unset, "2", "0.5", "abc", "nan", "inf"}

\* platform.system()
Platforms == {"Linux", "Darwin", "FreeBSD"}

\* float(max_memory_gb): the value in halves of a GiB, or what float()
\* gives or raises instead
EnvFloat(text) ==
    CASE text = "4" -> [kind |-> "finite", halves |-> 2 * DEFAULT_GB]
      [] text = "2" -> [kind |-> "finite", halves |-> 4]
      [] text = "0.5" -> [kind |-> "finite", halves |-> 1]
      [] text = "nan" -> [kind |-> "nan", halves |-> 0]
      [] text = "inf" -> [kind |-> "inf", halves |-> 0]
      [] OTHER -> [kind |-> "ValueError", halves |-> 0]

\* get_memory_limit(): the limit in KiB, or the exception that leaves it.
\* float() of a string that is no number and int() of nan raise ValueError,
\* which is caught; int() of inf raises OverflowError, which is not
get_memory_limit(env) ==
    LET max_memory_gb == IF env = Unset THEN "4" ELSE env
        memory_limit_gb == EnvFloat(max_memory_gb)
    IN CASE memory_limit_gb.kind = "finite" ->
                [raised |-> "", limit |-> (memory_limit_gb.halves * KIB_PER_GIB) \div 2]
         [] memory_limit_gb.kind = "inf" -> [raised |-> "OverflowError", limit |-> 0]
         [] OTHER -> [raised |-> "", limit |-> DEFAULT_GB * KIB_PER_GIB]

\* no resource limit
NoLimit == [resource |-> "none", limit |-> 0]

\* the limit preexec_fn sets in the child (main.py:66-72): RLIMIT_AS on
\* Linux, RLIMIT_DATA on macOS, preexec_fn = None elsewhere
Preexec(system, memory_limit) ==
    IF system = "Linux" THEN [resource |-> "RLIMIT_AS", limit |-> memory_limit]
    ELSE IF system = "Darwin" THEN [resource |-> "RLIMIT_DATA", limit |-> memory_limit]
    ELSE NoLimit

(* ------------------------------------------------------------------ *)
(* State                                                               *)
(* ------------------------------------------------------------------ *)

VARIABLES
    clock,                \* datetime.now(), in seconds
    state,                \* the durable store of load_state / save_state
    run,                  \* number of batch runs started
    spc,                  \* where main() of main.py is
    scanIdx,              \* position of the scan loop in the catalog
    datasets_to_process,  \* main.py:108
    up_to_date_datasets,  \* main.py:109
    successful,           \* main.py:155
    failed,               \* main.py:156
    procIdx,              \* position of the processing loop (main.py:158)
    upc,                  \* where the unit (process_dataset.py) is
    argv,                 \* the unit's command line: the dataset (main.py:52-58)
    startedAt,            \* clock when subprocess.run started the unit
    rlimit,               \* the resource limit the unit was started with
    file_content,         \* process_dataset.py:44
    series_data,          \* process_dataset.py:46
    prices_data,          \* process_dataset.py:47
    returncode,           \* exit status of the unit
    hist,                 \* what the current unit and run have done so far
    faults,               \* departures from the nominal case so far
    blob, lineIdx, acc,   \* the per-line specification
    environ,              \* os.environ['MAX_PROCESS_MEMORY']
    platform_system,      \* platform.system()
    bpc,                  \* where process_prices / process_series is
    asset,                \* which of the two runs: "prices" or "series"
    bidx,                 \* position of its loop over the catalog
    all_rows,             \* all_prices / all_series
    bundle_state,         \* the store under the keys "prices", "series"
    bhist                 \* what the current bundled run has done so far

supervisorVars ==
    <<run, spc, scanIdx, datasets_to_process, up_to_date_datasets,
      successful, failed, procIdx>>
unitVars ==
    <<upc, argv, startedAt, rlimit, file_content, series_data, prices_data,
      returncode>>
lineVars == <<blob, lineIdx, acc>>
hostVars == <<environ, platform_system>>
bundledVars == <<bpc, asset, bidx, all_rows, bundle_state, bhist>>
vars == <<clock, state, supervisorVars, unitVars, hist, faults, lineVars, hostVars,
          bundledVars>>

\* f"{dataset['code'].lower()}_series" of a catalog entry, read from the store
SeriesState(dataset) == state[Key(dataset.code, "series")]
PricesState(dataset) == state[Key(dataset.code, "prices")]

\* the dataset whose unit the processing loop is at (main.py:158)
CurDataset == datasets_to_process[procIdx]

\* the positions of the unit at which its process is alive
Running ==
    {"download", "parse", "upload_series", "save_series",
     "upload_prices", "save_prices", "finish", "hung"}

\* how long an upload may take: it ends before the timeout, or the
\* timeout ends it
Durations == {0, StepSecs}

\* time between the end of a batch run and the start of the next
Delays == {0, FRESH_DAYS * SECONDS_PER_DAY - StepSecs}

\* the blobs a download can return in the batch specification
BlobFacts ==
    << Object(Str("NUC_STATUS.OUT.US-NA.D"), Absent,
              Data(<< Pair(Str("20240101"), Num("150.5")),
                      Pair(Str("20240102"), Str("NM")) >>)) >>
BlobNoFacts ==
    << BadJson, Object(Str("COAL.X.A"), Absent, Data(<< Pair(Str("2023"), Null) >>)) >>
BlobNoRows == << BadJson, BlankLine >>
BlobNull == << Object(Str("COAL.X.A"), Absent, Data(<< Pair(Str("2023"), Num("7")) >>)), NullLine >>
Blobs == {BlobFacts, BlobNoFacts, BlobNoRows, BlobNull}

\* what download_and_extract_in_memory does: it returns a blob, or get()
\* or zipfile raises
DownloadResults ==
    {[error |-> "", content |-> b] : b \in Blobs}
    \cup {[error |-> e, content |-> <<>>] : e \in {"TransportError", "BadZipFile"}}

\* what the unit started last has done: the kinds it uploaded and saved,
\* why it ended ("" while it runs or when it returned normally) and how
\* subprocess.run saw it end
\* the nominal case: the download returns a blob with facts
NominalDownload == [error |-> "", content |-> BlobFacts]

\* no unit has a command line yet
NoArgs == [code |-> "", name |-> "", zip_path |-> ""]

NoUnit ==
    [uploaded |-> {}, saved |-> {}, cause |-> "", outcome |-> ""]
\* the current batch run: its start and the units it started per dataset
NoRun == [start |-> 0, startCount |-> [c \in Codes |-> 0]]
\* the previous batch run: whether it processed the whole catalog with
\* success, and when it started (0 when it did not)
NoPrev == [allOk |-> FALSE, start |-> 0]

\* what the three line loops have accumulated: series_data and
\* prices_data of process_dataset, prices_data of extract_time_series_data,
\* series_data of extract_series_metadata, and the exception that left
\* each loop
EmptyAcc ==
    [raised |-> "", series_data |-> <<>>, prices_data |-> <<>>,
     extract_raised |-> "", extract_data |-> <<>>,
     meta_raised |-> "", meta_data |-> <<>>]

\* the host of the batch specification: Linux, MAX_PROCESS_MEMORY not set
HostNominal ==
    /\ environ = Unset
    /\ platform_system = "Linux"

\* no bundled run has started
NoBundle ==
    [runs |-> 0, saves |-> 0, uploaded |-> FALSE, fetchFailed |-> {}, skipped |-> FALSE]

BundledIdle ==
    /\ bpc = "idle"
    /\ asset = "prices"
    /\ bidx = 1
    /\ all_rows = <<>>
    /\ bundle_state = [k \in Kinds |-> NoState]
    /\ bhist = NoBundle

Init ==
    /\ clock = 0
    /\ state = [k \in Keys |-> NoState]
    /\ run = 0
    /\ spc = "idle"
    /\ scanIdx = 1
    /\ datasets_to_process = <<>>
    /\ up_to_date_datasets = <<>>
    /\ successful = <<>>
    /\ failed = <<>>
    /\ procIdx = 1
    /\ upc = "none"
    /\ argv = NoArgs
    /\ startedAt = 0
    /\ rlimit = NoLimit
    /\ file_content = <<>>
    /\ series_data = <<>>
    /\ prices_data = <<>>
    /\ returncode = 0
    /\ hist = [unit |-> NoUnit, cur |-> NoRun, prev |-> NoPrev,
               uploadFailed |-> {},
               afterUpload |-> [k \in Keys |-> FALSE]]
    /\ faults = 0
    /\ blob = <<>>
    /\ lineIdx = 1
    /\ acc = EmptyAcc
    /\ HostNominal
    /\ BundledIdle

(* ------------------------------------------------------------------ *)
(* The batch entry point (main.py:104-181)                             *)
(* ------------------------------------------------------------------ *)

\* main.py is started, d seconds after the previous run ended
StartRun(d) ==
    /\ spc \in {"idle", "done", "crashed"}
    /\ run < MaxRuns
    /\ clock' = clock + d
    /\ run' = run + 1
    /\ spc' = "scan"
    /\ scanIdx' = 1
    /\ datasets_to_process' = <<>>
    /\ up_to_date_datasets' = <<>>
    /\ successful' = <<>>
    /\ failed' = <<>>
    /\ procIdx' = 1
    /\ upc' = "none"
    /\ argv' = NoArgs
    /\ startedAt' = 0
    /\ rlimit' = NoLimit
    /\ file_content' = <<>>
    /\ series_data' = <<>>
    /\ prices_data' = <<>>
    /\ returncode' = 0
    /\ hist' = [hist EXCEPT !.unit = NoUnit,
                            !.prev = IF Len(successful) = Len(Catalog)
                                     THEN [allOk |-> TRUE, start |-> hist.cur.start]
                                     ELSE NoPrev,
                            !.cur = [NoRun EXCEPT !.start = clock + d]]
    /\ UNCHANGED <<state, faults, lineVars, hostVars, bundledVars>>

\* ScanDataset with the test of needs_update before the append to
\* datasets_to_process left out: an up-to-date dataset is processed too
ScanDatasetSelectsAll ==
    /\ spc = "scan"
    /\ scanIdx <= Len(Catalog)
    /\ LET dataset == Catalog[scanIdx]
           series_state == SeriesState(dataset)
           prices_state == PricesState(dataset)
       IN /\ datasets_to_process' = Append(datasets_to_process, dataset)
          /\ up_to_date_datasets' =
                IF NeedsUpdate(series_state, prices_state, clock)
                THEN up_to_date_datasets
                ELSE Append(up_to_date_datasets,
                            [name |-> dataset.name,
                             days_ago |-> DaysAgo(series_state, prices_state, clock)])
    /\ scanIdx' = scanIdx + 1
    /\ UNCHANGED <<clock, state, run, spc, successful, failed, procIdx,
                   unitVars, hist, faults, lineVars, hostVars, bundledVars>>

\* ScanDataset with the selected dataset put at the front of
\* datasets_to_process instead of appended
ScanDatasetPrepends ==
    /\ spc = "scan"
    /\ scanIdx <= Len(Catalog)
    /\ LET dataset == Catalog[scanIdx]
           series_state == SeriesState(dataset)
           prices_state == PricesState(dataset)
       IN IF NeedsUpdate(series_state, prices_state, clock)
          THEN /\ datasets_to_process' = <<dataset>> \o datasets_to_process
               /\ UNCHANGED up_to_date_datasets
          ELSE /\ up_to_date_datasets' =
                      Append(up_to_date_datasets,
                             [name |-> dataset.name,
                              days_ago |-> DaysAgo(series_state, prices_state, clock)])
               /\ UNCHANGED datasets_to_process
    /\ scanIdx' = scanIdx + 1
    /\ UNCHANGED <<clock, state, run, spc, successful, failed, procIdx,
                   unitVars, hist, faults, lineVars, hostVars, bundledVars>>

\* one iteration of the scan loop (main.py:111-136)
ScanDataset ==
    /\ spc = "scan"
    /\ scanIdx <= Len(Catalog)
    /\ LET dataset == Catalog[scanIdx]
           series_state == SeriesState(dataset)
           prices_state == PricesState(dataset)
       IN IF NeedsUpdate(series_state, prices_state, clock)
          THEN /\ datasets_to_process' = Append(datasets_to_process, dataset)
               /\ UNCHANGED up_to_date_datasets
          ELSE /\ up_to_date_datasets' =
                      Append(up_to_date_datasets,
                             [name |-> dataset.name,
                              days_ago |-> DaysAgo(series_state, prices_state, clock)])
               /\ UNCHANGED datasets_to_process
    /\ scanIdx' = scanIdx + 1
    /\ UNCHANGED <<clock, state, run, spc, successful, failed, procIdx,
                   unitVars, hist, faults, lineVars, hostVars, bundledVars>>

\* the status summary and the early return (main.py:138-152)
ScanEnd ==
    /\ spc = "scan"
    /\ scanIdx > Len(Catalog)
    /\ spc' = IF datasets_to_process = <<>> THEN "done" ELSE "process"
    /\ UNCHANGED <<clock, state, run, scanIdx, datasets_to_process,
                   up_to_date_datasets, successful, failed, procIdx,
                   unitVars, hist, faults, lineVars, hostVars, bundledVars>>

\* 1 for a condition that leaves the nominal case, 0 otherwise
Cost(odd) == IF odd THEN 1 ELSE 0

\* the environment leaves the nominal case n times in this step
Fault(n) ==
    /\ faults + n <= MaxFaults
    /\ faults' = faults + n

\* the unit's process has ended: its memory is gone
ProcessGone ==
    /\ file_content' = <<>>
    /\ series_data' = <<>>
    /\ prices_data' = <<>>

\* success = process_dataset_subprocess(dataset) has returned: the append
\* of main.py:163-166 and the step to the next dataset
Collect(h, success, outcome, cause) ==
    /\ IF success
       THEN /\ successful' = Append(successful, CurDataset.name)
            /\ UNCHANGED failed
       ELSE /\ failed' = Append(failed, CurDataset.name)
            /\ UNCHANGED successful
    /\ procIdx' = procIdx + 1
    /\ spc' = "process"
    /\ hist' = [h EXCEPT !.unit.outcome = outcome,
                         !.unit.cause = IF cause = "" THEN @ ELSE cause]

\* process_dataset_subprocess up to subprocess.run (main.py:50-83):
\* get_memory_limit() is called outside the try, so what it raises leaves
\* process_dataset_subprocess and main(); otherwise subprocess.run starts
\* the unit of the next dataset with the limit preexec_fn sets
SpawnUnit ==
    /\ spc = "process"
    /\ procIdx <= Len(datasets_to_process)
    /\ LET memory_limit == get_memory_limit(environ) IN
       IF memory_limit.raised # ""
       THEN /\ spc' = "crashed"
            /\ UNCHANGED <<unitVars, hist>>
       ELSE /\ spc' = "wait"
            /\ upc' = "download"
            /\ argv' = CurDataset
            /\ startedAt' = clock
            /\ rlimit' = Preexec(platform_system, memory_limit.limit)
            /\ file_content' = <<>>
            /\ series_data' = <<>>
            /\ prices_data' = <<>>
            /\ returncode' = 0
            /\ hist' = [hist EXCEPT !.unit = NoUnit,
                                    !.cur.startCount[CurDataset.code] = @ + 1,
                                    !.uploadFailed = @ \ {CurDataset.code}]
    /\ UNCHANGED <<clock, state, run, scanIdx, datasets_to_process,
                   up_to_date_datasets, successful, failed, procIdx, faults,
                   lineVars, hostVars, bundledVars>>

\* subprocess.run raises before the unit runs (the interpreter cannot be
\* started): except Exception, return False (main.py:100-102)
SpawnFails ==
    /\ spc = "process"
    /\ procIdx <= Len(datasets_to_process)
    /\ get_memory_limit(environ).raised = ""
    /\ Fault(1)
    /\ Collect([hist EXCEPT !.unit = NoUnit,
                            !.cur.startCount[CurDataset.code] = @ + 1,
                            !.uploadFailed = @ \ {CurDataset.code}],
               FALSE, "nostart", "nostart")
    /\ upc' = "none"
    /\ argv' = CurDataset
    /\ startedAt' = clock
    /\ rlimit' = NoLimit
    /\ returncode' = 0
    /\ ProcessGone
    /\ UNCHANGED <<clock, state, run, scanIdx, datasets_to_process,
                   up_to_date_datasets, lineVars, hostVars, bundledVars>>

\* SubprocessReturn with the exit status ignored: every unit that exits
\* counts as a success
SubprocessReturnIgnoresStatus ==
    /\ spc = "wait"
    /\ upc = "exited"
    /\ Collect(hist, TRUE, "exited", "")
    /\ UNCHANGED <<clock, state, run, scanIdx, datasets_to_process,
                   up_to_date_datasets, unitVars, faults, lineVars, hostVars, bundledVars>>

\* subprocess.run returns the exited unit's status: return
\* result.returncode == 0 (main.py:95)
SubprocessReturn ==
    /\ spc = "wait"
    /\ upc = "exited"
    /\ Collect(hist, returncode = 0, "exited", "")
    /\ UNCHANGED <<clock, state, run, scanIdx, datasets_to_process,
                   up_to_date_datasets, unitVars, faults, lineVars, hostVars, bundledVars>>

\* TimeoutExpired with the exception not caught: it leaves main() and the
\* batch ends there
TimeoutAbortsBatch ==
    /\ spc = "wait"
    /\ upc \in Running
    /\ Fault(Cost(upc # "hung"))
    /\ clock' = startedAt + TIMEOUT
    /\ upc' = "killed"
    /\ ProcessGone
    /\ spc' = "done"
    /\ hist' = [hist EXCEPT !.unit.outcome = "timeout", !.unit.cause = "timeout"]
    /\ UNCHANGED <<state, run, scanIdx, datasets_to_process, up_to_date_datasets,
                   successful, failed, procIdx, argv, startedAt, rlimit, returncode,
                   lineVars, hostVars, bundledVars>>

\* TimeoutExpired with the wait given up but the unit not killed: the
\* unit keeps running while the Supervisor goes on
TimeoutWithoutKill ==
    /\ spc = "wait"
    /\ upc \in Running
    /\ Fault(Cost(upc # "hung"))
    /\ clock' = startedAt + TIMEOUT
    /\ Collect(hist, FALSE, "timeout", "timeout")
    /\ UNCHANGED <<state, run, scanIdx, datasets_to_process, up_to_date_datasets,
                   unitVars, lineVars, hostVars, bundledVars>>

\* TimeoutExpired with subprocess.run called without timeout=: the wait
\* for the unit is never given up
TimeoutNever ==
    /\ spc = "wait"
    /\ upc \in Running
    /\ FALSE
    /\ UNCHANGED vars

\* the unit is still alive 1200 s after its start: subprocess.run kills it
\* and raises TimeoutExpired, return False (main.py:80, 97-99)
TimeoutExpired ==
    /\ spc = "wait"
    /\ upc \in Running
    /\ Fault(Cost(upc # "hung"))
    /\ clock' = startedAt + TIMEOUT
    /\ upc' = "killed"
    /\ ProcessGone
    /\ Collect(hist, FALSE, "timeout", "timeout")
    /\ UNCHANGED <<state, run, scanIdx, datasets_to_process, up_to_date_datasets,
                   argv, startedAt, rlimit, returncode, lineVars, hostVars, bundledVars>>

\* the final summary (main.py:168-181)
Summary ==
    /\ spc = "process"
    /\ procIdx > Len(datasets_to_process)
    /\ spc' = "done"
    /\ UNCHANGED <<clock, state, run, scanIdx, datasets_to_process,
                   up_to_date_datasets, successful, failed, procIdx,
                   unitVars, hist, faults, lineVars, hostVars, bundledVars>>

(* ------------------------------------------------------------------ *)
(* The unit: main() and process_dataset() of process_dataset.py        *)
(* ------------------------------------------------------------------ *)

\* a step of the unit that takes d seconds ends before the timeout
InTime(d) == clock + d - startedAt < TIMEOUT

\* an exception leaves process_dataset: except Exception, sys.exit(1)
\* (process_dataset.py:128-132)
ExitOnException(cause) ==
    /\ upc' = "exited"
    /\ returncode' = 1
    /\ ProcessGone
    /\ hist' = [hist EXCEPT !.unit.cause = cause,
                            !.uploadFailed =
                                IF cause \in {"upload_series", "upload_prices"}
                                THEN @ \cup {argv.code} ELSE @]

\* download_and_extract_in_memory (process_dataset.py:16-36, 44): the blob,
\* or the error of get() or of zipfile
UnitDownload(result) ==
    /\ upc = "download"
    /\ Fault(Cost(result # NominalDownload))
    /\ IF result.error # ""
       THEN ExitOnException("download")
       ELSE /\ file_content' = result.content
            /\ upc' = "parse"
            /\ UNCHANGED <<returncode, hist, series_data, prices_data>>
    /\ UNCHANGED <<clock, state, supervisorVars, argv, startedAt, rlimit, lineVars, hostVars, bundledVars>>

\* the line loop (process_dataset.py:46-83)
UnitParse ==
    /\ upc = "parse"
    /\ LET r == ProcessLines(file_content, 1, argv.code, argv.name) IN
       IF r.raised # ""
       THEN ExitOnException("parse")
       ELSE /\ series_data' = r.series_data
            /\ prices_data' = r.prices_data
            /\ upc' = "upload_series"
            /\ UNCHANGED <<returncode, hist, file_content>>
    /\ UNCHANGED <<clock, state, supervisorVars, argv, startedAt, rlimit, faults, lineVars, hostVars, bundledVars>>

\* Upload with the failure of upload_data caught and logged instead of
\* propagated: the unit goes on to save_state
UploadSwallowsError(kind, data, d, ok, savePc, skipPc) ==
    /\ InTime(d)
    /\ Fault(Cost(d # 0) + Cost(~ok))
    /\ IF data = <<>>
       THEN /\ d = 0
            /\ ok
            /\ upc' = skipPc
            /\ UNCHANGED <<clock, hist>>
       ELSE /\ clock' = clock + d
            /\ upc' = savePc
            /\ hist' = IF ok THEN [hist EXCEPT !.unit.uploaded = @ \cup {kind}]
                       ELSE hist
    /\ UNCHANGED <<state, supervisorVars, argv, startedAt, rlimit, returncode,
                   file_content, series_data, prices_data, lineVars, hostVars, bundledVars>>

\* if data: upload_data(table, key) (process_dataset.py:86-89, 99-102)
Upload(kind, data, d, ok, savePc, skipPc) ==
    /\ InTime(d)
    /\ Fault(Cost(d # 0) + Cost(~ok))
    /\ IF data = <<>>
       THEN /\ d = 0
            /\ ok
            /\ upc' = skipPc
            /\ UNCHANGED <<clock, returncode, hist, file_content, series_data,
                           prices_data>>
       ELSE /\ clock' = clock + d
            /\ IF ok
               THEN /\ upc' = savePc
                    /\ hist' = [hist EXCEPT !.unit.uploaded = @ \cup {kind}]
                    /\ UNCHANGED <<returncode, file_content, series_data,
                                   prices_data>>
               ELSE ExitOnException("upload_" \o kind)
    /\ UNCHANGED <<state, supervisorVars, argv, startedAt, rlimit, lineVars, hostVars, bundledVars>>

\* Save with the key built without the unit's dataset code: every unit
\* writes under the key of the first catalog entry
SaveUnderFirstKey(kind, nextPc) ==
    /\ state' = [state EXCEPT ![Key(Catalog[1].code, kind)] = Checkpoint(clock)]
    /\ upc' = nextPc
    /\ hist' = [hist EXCEPT !.unit.saved = @ \cup {kind},
                            !.afterUpload[Key(Catalog[1].code, kind)] =
                                (kind \in hist.unit.uploaded)]
    /\ UNCHANGED <<clock, supervisorVars, argv, startedAt, rlimit, file_content,
                   series_data, prices_data, returncode, faults, lineVars, hostVars,
                   bundledVars>>

\* save_state(key, {'last_updated': datetime.now().isoformat(), ...})
\* (process_dataset.py:92-96, 105-109)
Save(kind, nextPc) ==
    /\ state' = [state EXCEPT ![Key(argv.code, kind)] = Checkpoint(clock)]
    /\ upc' = nextPc
    /\ hist' = [hist EXCEPT !.unit.saved = @ \cup {kind},
                            !.afterUpload[Key(argv.code, kind)] =
                                (kind \in hist.unit.uploaded)]
    /\ UNCHANGED <<clock, supervisorVars, argv, startedAt, rlimit, file_content, series_data,
                   prices_data, returncode, faults, lineVars, hostVars, bundledVars>>

UnitUploadSeries(d, ok) ==
    /\ upc = "upload_series"
    /\ Upload("series", series_data, d, ok, "save_series", "upload_prices")

UnitSaveSeries ==
    /\ upc = "save_series"
    /\ Save("series", "upload_prices")

UnitUploadPrices(d, ok) ==
    /\ upc = "upload_prices"
    /\ Upload("prices", prices_data, d, ok, "save_prices", "finish")

UnitSavePrices ==
    /\ upc = "save_prices"
    /\ Save("prices", "finish")

\* process_dataset returns, main returns: exit status 0
\* (process_dataset.py:111, 129)
UnitFinish ==
    /\ upc = "finish"
    /\ upc' = "exited"
    /\ returncode' = 0
    /\ ProcessGone
    /\ UNCHANGED <<clock, state, supervisorVars, argv, startedAt, rlimit, hist, faults, lineVars, hostVars, bundledVars>>

\* the unit exceeds the limit set by resource.setrlimit (main.py:67-72):
\* MemoryError is raised and caught by except Exception (exit status 1),
\* or native code aborts the process (status -6)
UnitMemoryExceeded(rc) ==
    /\ upc \in Running
    /\ rlimit # NoLimit
    /\ Fault(1)
    /\ upc' = "exited"
    /\ returncode' = rc
    /\ ProcessGone
    /\ hist' = [hist EXCEPT !.unit.cause = "memory"]
    /\ UNCHANGED <<clock, state, supervisorVars, argv, startedAt, rlimit, lineVars, hostVars, bundledVars>>

\* a call of the unit that does not return: get() and upload_data are
\* called without a timeout of their own (process_dataset.py:21, 89, 102)
UnitHangs ==
    /\ upc \in {"download", "upload_series", "upload_prices"}
    /\ Fault(1)
    /\ upc' = "hung"
    /\ UNCHANGED <<clock, state, supervisorVars, argv, startedAt, rlimit, file_content,
                   series_data, prices_data, returncode, hist, lineVars, hostVars,
                   bundledVars>>

Unit ==
    \/ \E result \in DownloadResults : UnitDownload(result)
    \/ UnitParse
    \/ \E d \in Durations, ok \in BOOLEAN : UnitUploadSeries(d, ok)
    \/ UnitSaveSeries
    \/ \E d \in Durations, ok \in BOOLEAN : UnitUploadPrices(d, ok)
    \/ UnitSavePrices
    \/ UnitFinish
    \/ \E rc \in {1, -6} : UnitMemoryExceeded(rc)
    \/ UnitHangs

Supervisor ==
    \/ \E d \in Delays : StartRun(d)
    \/ ScanDataset
    \/ ScanEnd
    \/ SpawnUnit
    \/ SpawnFails
    \/ SubprocessReturn
    \/ TimeoutExpired
    \/ Summary

Next == Supervisor \/ Unit

Spec == Init /\ [][Next]_vars

\* a step of a batch run in progress: the interpreter of main.py executes
\* its next statement, the operating system runs the unit, and the timeout
\* of subprocess.run expires
RunStep ==
    \/ ScanDataset
    \/ ScanEnd
    \/ SpawnUnit
    \/ SpawnFails
    \/ SubprocessReturn
    \/ TimeoutExpired
    \/ Summary
    \/ Unit

\* the stores a batch run can find: per dataset no checkpoint, the series
\* checkpoint only, or both
LiveStores ==
    {st \in [Keys -> {NoState, Checkpoint(0)}] :
        \A c \in Codes : st[Key(c, "prices")].present => st[Key(c, "series")].present}

\* main.py has just been started, over any of these stores
InitLive ==
    /\ clock = 0
    /\ state \in LiveStores
    /\ run = 1
    /\ spc = "scan"
    /\ scanIdx = 1
    /\ datasets_to_process = <<>>
    /\ up_to_date_datasets = <<>>
    /\ successful = <<>>
    /\ failed = <<>>
    /\ procIdx = 1
    /\ upc = "none"
    /\ argv = NoArgs
    /\ startedAt = 0
    /\ rlimit = NoLimit
    /\ file_content = <<>>
    /\ series_data = <<>>
    /\ prices_data = <<>>
    /\ returncode = 0
    /\ hist = [unit |-> NoUnit, cur |-> NoRun, prev |-> NoPrev,
               uploadFailed |-> {},
               afterUpload |-> [k \in Keys |-> state[k].present]]
    /\ faults = 0
    /\ blob = <<>>
    /\ lineIdx = 1
    /\ acc = EmptyAcc
    /\ HostNominal
    /\ BundledIdle

NextLive == RunStep

\* one batch run that is never left standing while it can take a step
SpecLive == InitLive /\ [][NextLive]_vars /\ WF_vars(RunStep)

(* ------------------------------------------------------------------ *)
(* The line loops, one line at a time, over every blob of the bounds   *)
(* ------------------------------------------------------------------ *)

Sid == Str("COAL.X.A")

\* the lines blobs are made of
LineSet ==
    { BlankLine, BadJson, NullLine, ArrayLine,
      BlobFacts[1],
      Object(Absent, Absent, Data(<< Pair(Str("2023"), Num("7")) >>)),
      Object(Sid, Str("OWN"), NoData),
      Object(Sid, Absent, DataNotList),
      Object(Num("5"), Absent, NoData),
      Object(Sid, Absent,
             Data(<< Triple, NotAPair, Pair(Num("2023"), Str("abc")),
                     Pair(Str("2024"), Str("12.5")), Pair(Str("2025"), JList) >>)),
      Object(Sid, Absent,
             Data(<< Pair(Str("2021"), Str("NA")), Pair(Str("2022"), Str("")),
                     Pair(Str("2023"), Null), Pair(Str("2024"), JTrue),
                     Pair(Str("2025"), Str("nan")), Pair(Null, Str(" 7 ")) >>)),
      Object(Sid, Absent, Data(<< Pair(Str("2023"), Num("7")), Pair(Str("2024"), HugeInt) >>)) }

\* the blobs of at most MaxLines lines
BlobSet == UNION {[1..n -> LineSet] : n \in 0..MaxLines}

\* the dataset the line loops run for
LineDataset == Catalog[1]

InitLines ==
    /\ clock = 0
    /\ state = [k \in Keys |-> NoState]
    /\ run = 0
    /\ spc = "idle"
    /\ scanIdx = 1
    /\ datasets_to_process = <<>>
    /\ up_to_date_datasets = <<>>
    /\ successful = <<>>
    /\ failed = <<>>
    /\ procIdx = 1
    /\ upc = "none"
    /\ argv = NoArgs
    /\ startedAt = 0
    /\ rlimit = NoLimit
    /\ file_content = <<>>
    /\ series_data = <<>>
    /\ prices_data = <<>>
    /\ returncode = 0
    /\ hist = [unit |-> NoUnit, cur |-> NoRun, prev |-> NoPrev,
               uploadFailed |-> {},
               afterUpload |-> [k \in Keys |-> FALSE]]
    /\ faults = 0
    /\ blob \in BlobSet
    /\ lineIdx = 1
    /\ acc = EmptyAcc
    /\ HostNominal
    /\ BundledIdle

\* the next line of the blob goes through the three loops; a loop that
\* an exception has left takes no further line
LineStep ==
    /\ lineIdx <= Len(blob)
    /\ LET p == ProcessLine(blob[lineIdx], LineDataset.code, LineDataset.name)
           e == ExtractLine(blob[lineIdx], LineDataset.code)
           m == ExtractMetaLine(blob[lineIdx])
       IN acc' = [raised |-> IF acc.raised # "" THEN acc.raised ELSE p.raised,
                  series_data |-> IF acc.raised # "" THEN acc.series_data
                                  ELSE acc.series_data \o p.meta,
                  prices_data |-> IF acc.raised # "" \/ p.raised # "" THEN acc.prices_data
                                  ELSE acc.prices_data \o p.facts,
                  extract_raised |-> IF acc.extract_raised # "" THEN acc.extract_raised
                                     ELSE e.raised,
                  extract_data |-> IF acc.extract_raised # "" \/ e.raised # ""
                                   THEN acc.extract_data
                                   ELSE acc.extract_data \o e.facts,
                  meta_raised |-> IF acc.meta_raised # "" THEN acc.meta_raised
                                  ELSE m.raised,
                  meta_data |-> IF acc.meta_raised # "" THEN acc.meta_data
                                ELSE acc.meta_data \o m.meta]
    /\ lineIdx' = lineIdx + 1
    /\ UNCHANGED <<clock, state, supervisorVars, unitVars, hist, faults, blob,
                   hostVars, bundledVars>>

NextLines == LineStep

SpecLines == InitLines /\ [][NextLines]_vars

(* ------------------------------------------------------------------ *)
(* The staleness scan over every store of the bounds                   *)
(* ------------------------------------------------------------------ *)

\* the freshness window in seconds
Window == FRESH_DAYS * SECONDS_PER_DAY

\* the times checkpoints of the scan specification were written at
ScanTimes == {0, 1, StepSecs, SECONDS_PER_DAY}

\* the times the scan of the scan specification runs at
ScanNows == {Window - 1, Window, Window + StepSecs}

\* what load_state can return for a key
ScanStates == {NoState, NoLastUpdated} \cup {Checkpoint(t) : t \in ScanTimes}

InitScan ==
    /\ clock \in ScanNows
    /\ state \in [Keys -> ScanStates]
    /\ run = 1
    /\ spc = "scan"
    /\ scanIdx = 1
    /\ datasets_to_process = <<>>
    /\ up_to_date_datasets = <<>>
    /\ successful = <<>>
    /\ failed = <<>>
    /\ procIdx = 1
    /\ upc = "none"
    /\ argv = NoArgs
    /\ startedAt = 0
    /\ rlimit = NoLimit
    /\ file_content = <<>>
    /\ series_data = <<>>
    /\ prices_data = <<>>
    /\ returncode = 0
    /\ hist = [unit |-> NoUnit, cur |-> [NoRun EXCEPT !.start = clock],
               prev |-> NoPrev, uploadFailed |-> {},
               afterUpload |-> [k \in Keys |-> FALSE]]
    /\ faults = 0
    /\ blob = <<>>
    /\ lineIdx = 1
    /\ acc = EmptyAcc
    /\ HostNominal
    /\ BundledIdle

NextScan == ScanDataset \/ ScanEnd

SpecScan == InitScan /\ [][NextScan]_vars

(* ------------------------------------------------------------------ *)
(* The bundled flow: process_prices (prices.py:77-118) and             *)
(* process_series (series.py:65-111), one key for all datasets         *)
(* ------------------------------------------------------------------ *)

\* extract_time_series_data(content, dataset_code) from line i on
RECURSIVE extract_time_series_data(_, _, _)
extract_time_series_data(content, i, dataset_code) ==
    IF i > Len(content) THEN [raised |-> "", rows |-> <<>>]
    ELSE LET r == ExtractLine(content[i], dataset_code) IN
         IF r.raised # "" THEN [raised |-> r.raised, rows |-> <<>>]
         ELSE LET rest == extract_time_series_data(content, i + 1, dataset_code) IN
              [raised |-> rest.raised, rows |-> r.facts \o rest.rows]

\* extract_series_metadata(content) from line i on
RECURSIVE extract_series_metadata(_, _)
extract_series_metadata(content, i) ==
    IF i > Len(content) THEN [raised |-> "", rows |-> <<>>]
    ELSE LET r == ExtractMetaLine(content[i]) IN
         IF r.raised # "" THEN [raised |-> r.raised, rows |-> <<>>]
         ELSE LET rest == extract_series_metadata(content, i + 1) IN
              [raised |-> rest.raised, rows |-> r.meta \o rest.rows]

\* series['dataset_code'] = ..., series['dataset_name'] = ... (series.py:89-91)
WithDatasetInfo(rows, dataset) ==
    [j \in 1..Len(rows) |->
        [series_id |-> rows[j].series_id, dataset |-> rows[j].dataset,
         name |-> rows[j].name,
         dataset_code |-> dataset.code, dataset_name |-> dataset.name]]

\* the rows one dataset adds in the body of the try (prices.py:94-100,
\* series.py:82-93)
ExtractRows(kind, content, dataset) ==
    IF kind = "prices" THEN extract_time_series_data(content, 1, dataset.code)
    ELSE LET r == extract_series_metadata(content, 1) IN
         [raised |-> r.raised, rows |-> WithDatasetInfo(r.rows, dataset)]

\* process_prices() / process_series() is called, d seconds after the
\* previous call ended: the state is loaded and, when it is younger than 30
\* days, an empty table is returned at once (prices.py:79-89, series.py:67-77)
BundledStart(kind, d) ==
    /\ bpc \in {"idle", "done"}
    /\ bhist.runs < MaxRuns
    /\ clock' = clock + d
    /\ asset' = kind
    /\ bidx' = 1
    /\ all_rows' = <<>>
    /\ LET st == bundle_state[kind]
           recent == /\ ~Missing(st)
                     /\ Days(clock + d - st.last_updated) < FRESH_DAYS
       IN /\ bpc' = IF recent THEN "returned" ELSE "fetch"
          /\ bhist' = [NoBundle EXCEPT !.runs = bhist.runs + 1, !.skipped = recent]
    /\ UNCHANGED <<state, supervisorVars, unitVars, hist, faults, lineVars, hostVars,
                   bundle_state>>

\* one iteration of the loop over the catalog (prices.py:91-105,
\* series.py:79-98): whatever the download or the extraction raises is
\* printed and the loop continues
BundledFetch(result) ==
    /\ bpc = "fetch"
    /\ bidx <= Len(Catalog)
    /\ LET dataset == Catalog[bidx]
           r == ExtractRows(asset, result.content, dataset)
       IN IF result.error # ""
          THEN /\ bhist' = [bhist EXCEPT !.fetchFailed = @ \cup {dataset.code}]
               /\ UNCHANGED all_rows
          ELSE /\ all_rows' = IF r.raised # "" THEN all_rows ELSE all_rows \o r.rows
               /\ UNCHANGED bhist
    /\ bidx' = bidx + 1
    /\ UNCHANGED <<clock, state, supervisorVars, unitVars, hist, faults, lineVars,
                   hostVars, bpc, asset, bundle_state>>

\* after the loop: save_state(key, {'last_updated': ...}) and the return of
\* the table (prices.py:107-118, series.py:100-111)
BundledSave ==
    /\ bpc = "fetch"
    /\ bidx > Len(Catalog)
    /\ bundle_state' = [bundle_state EXCEPT ![asset] = Checkpoint(clock)]
    /\ bhist' = [bhist EXCEPT !.saves = @ + 1]
    /\ bpc' = "returned"
    /\ UNCHANGED <<clock, state, supervisorVars, unitVars, hist, faults, lineVars,
                   hostVars, asset, bidx, all_rows>>

\* the caller hands the returned table to the upload collaborator, which
\* returns or raises
BundledUpload(ok) ==
    /\ bpc = "returned"
    /\ bpc' = "done"
    /\ bhist' = [bhist EXCEPT !.uploaded = ok]
    /\ UNCHANGED <<clock, state, supervisorVars, unitVars, hist, faults, lineVars,
                   hostVars, asset, bidx, all_rows, bundle_state>>

NextBundled ==
    \/ \E kind \in Kinds, d \in Delays : BundledStart(kind, d)
    \/ \E result \in DownloadResults : BundledFetch(result)
    \/ BundledSave
    \/ \E ok \in BOOLEAN : BundledUpload(ok)

SpecBundled == Init /\ [][NextBundled]_vars

(* ------------------------------------------------------------------ *)
(* The units under every host and memory budget                        *)
(* ------------------------------------------------------------------ *)

\* a batch run that has selected the whole catalog, on any host
InitLimit ==
    /\ clock = 0
    /\ state = [k \in Keys |-> NoState]
    /\ run = 1
    /\ spc = "process"
    /\ scanIdx = Len(Catalog) + 1
    /\ datasets_to_process = Catalog
    /\ up_to_date_datasets = <<>>
    /\ successful = <<>>
    /\ failed = <<>>
    /\ procIdx = 1
    /\ upc = "none"
    /\ argv = NoArgs
    /\ startedAt = 0
    /\ rlimit = NoLimit
    /\ file_content = <<>>
    /\ series_data = <<>>
    /\ prices_data = <<>>
    /\ returncode = 0
    /\ hist = [unit |-> NoUnit, cur |-> NoRun, prev |-> NoPrev,
               uploadFailed |-> {},
               afterUpload |-> [k \in Keys |-> FALSE]]
    /\ faults = 0
    /\ blob = <<>>
    /\ lineIdx = 1
    /\ acc = EmptyAcc
    /\ environ \in EnvValues
    /\ platform_system \in Platforms
    /\ BundledIdle

NextLimit ==
    \/ SpawnUnit
    \/ SpawnFails
    \/ SubprocessReturn
    \/ TimeoutExpired
    \/ Summary
    \/ Unit

SpecLimit == InitLimit /\ [][NextLimit]_vars

(* ------------------------------------------------------------------ *)
(* Helpers of the properties                                           *)
(* ------------------------------------------------------------------ *)

\* the elements of a sequence
Range(seq) == {seq[i] : i \in 1..Len(seq)}

\* how often x occurs in seq
Count(seq, x) == Cardinality({i \in 1..Len(seq) : seq[i] = x})

\* the names of the datasets reported up-to-date by the current scan
UpToDateNames == {up_to_date_datasets[i].name : i \in 1..Len(up_to_date_datasets)}

\* the codes of the datasets selected for processing by the current scan
ToProcessCodes == {datasets_to_process[i].code : i \in 1..Len(datasets_to_process)}

\* the dataset whose unit the Supervisor collected last
LastCollected == datasets_to_process[procIdx - 1]

(* ------------------------------------------------------------------ *)
(* Properties of the batch specification                               *)
(* ------------------------------------------------------------------ *)

\* C1: in a unit, the checkpoint of a key is written only after upload_data
\* of the table of that key has returned in the same unit, only under the
\* key of the unit's own dataset, and a unit whose upload of a table raised
\* has written no checkpoint for that table's key.
C1_CheckpointOnlyAfterUpload ==
    /\ [](hist.unit.saved \subseteq hist.unit.uploaded)
    /\ [](\A kind \in Kinds :
            hist.unit.cause = "upload_" \o kind => kind \notin hist.unit.saved)
    /\ [][\A c \in Codes, kind \in Kinds :
            state'[Key(c, kind)] # state[Key(c, kind)]
            => /\ kind \in hist.unit.uploaded
               /\ c = argv.code
               /\ upc \in Running]_vars

\* C1 witness: a unit whose series upload returned and whose prices upload
\* raised has saved the series checkpoint and no prices checkpoint
C1_Witness ==
    /\ hist.unit.cause = "upload_prices"
    /\ hist.unit.saved = {"series"}
    /\ hist.unit.uploaded = {"series"}
    /\ state[Key(argv.code, "series")] = Checkpoint(clock)

\* C2 (as claimed): a dataset whose last unit failed on an upload is never
\* reported up-to-date by a later scan, whenever that scan runs.
C2_UploadFailureIsRetried ==
    \A i \in 1..Len(Catalog) :
        Catalog[i].code \in hist.uploadFailed => Catalog[i].name \notin UpToDateNames

\* C3: every dataset selected by the scan has its unit started exactly once,
\* in order, whatever the outcomes of the units before it; a dataset that is
\* not selected has none; every dataset whose unit has ended is in exactly
\* one of successful / failed; the run ends only after the last of them.
C3_EveryUnitStartedOnce ==
    /\ \A i \in 1..Len(datasets_to_process) :
          LET d == datasets_to_process[i] IN
          /\ hist.cur.startCount[d.code] =
                IF i < procIdx \/ (i = procIdx /\ spc = "wait") THEN 1 ELSE 0
          /\ Count(successful, d.name) + Count(failed, d.name) =
                IF i < procIdx THEN 1 ELSE 0
    /\ \A c \in Codes \ ToProcessCodes : hist.cur.startCount[c] = 0
    /\ Len(successful) + Len(failed) = procIdx - 1
    /\ spc = "done" => procIdx > Len(datasets_to_process)

\* C3 witness: a finished run in which the unit of the first selected
\* dataset failed and a later one was started and succeeded
C3_Witness ==
    /\ spc = "done"
    /\ Len(datasets_to_process) >= 2
    /\ failed = <<datasets_to_process[1].name>>
    /\ successful # <<>>

\* C4 (as claimed, read in its favour): when the previous run processed the
\* whole catalog and reported every dataset successful, a run started less
\* than 30 days after it selects no dataset, so it starts no unit.
C4_SecondRunStartsNothing ==
    (/\ run >= 2
     /\ hist.prev.allOk
     /\ hist.cur.start - hist.prev.start < Window)
    => datasets_to_process = <<>>

\* C7 (as claimed): a unit that ended on its memory ceiling is reported
\* failed and has written no checkpoint, neither series nor prices.
C7_NoCheckpointOnMemoryExceeded ==
    hist.unit.cause = "memory"
    => /\ hist.unit.saved = {}
       /\ hist.unit.outcome # "" =>
             (LastCollected.name \in Range(failed)
              /\ LastCollected.name \notin Range(successful))

\* C8: a unit still running 1200 s after its start is killed and its
\* dataset put in failed; from the kill on the store and the unit's uploads
\* do not change until another unit is started; and every checkpoint in the
\* store was written after upload_data of its table had returned.
C8_TimeoutKillsUnit ==
    /\ [](hist.unit.outcome = "timeout"
          => /\ upc = "killed"
             /\ clock - startedAt >= TIMEOUT
             /\ LastCollected.name \in Range(failed)
             /\ LastCollected.name \notin Range(successful))
    /\ [](\A k \in Keys : state[k].present => hist.afterUpload[k])
    /\ [][hist'.unit.outcome = "timeout"
          => /\ state' = state
             /\ hist'.unit.uploaded = hist.unit.uploaded
             /\ hist'.unit.saved = hist.unit.saved]_vars

\* C8 witness: a unit killed on timeout between the save of its series
\* checkpoint and the save of its prices checkpoint
C8_Witness ==
    /\ hist.unit.outcome = "timeout"
    /\ upc = "killed"
    /\ hist.unit.saved = {"series"}
    /\ ~state[Key(argv.code, "prices")].present

\* C9: the unit exits with status 0 exactly when process_dataset returned
\* without an exception, and the Supervisor puts a dataset in successful
\* exactly when its unit exited with status 0 before the timeout (in failed
\* otherwise).
C9_ExitStatusDecidesSuccess ==
    /\ upc = "exited" => (returncode = 0 <=> hist.unit.cause = "")
    /\ hist.unit.outcome # ""
       => LET ok == hist.unit.outcome = "exited" /\ returncode = 0 IN
          /\ LastCollected.name \in Range(successful) <=> ok
          /\ LastCollected.name \in Range(failed) <=> ~ok

\* C9 witness: a run that has collected one unit that exited non-zero after
\* an upload error and one that exited zero
C9_Witness ==
    /\ hist.unit.outcome = "exited"
    /\ returncode = 0
    /\ Len(successful) = 1
    /\ Len(failed) = 1
    /\ hist.uploadFailed # {}

\* the position of a dataset name in the catalog
NameIndex(name) == CHOOSE i \in 1..Len(Catalog) : Catalog[i].name = name

\* C14: datasets are evaluated in catalog order, the selected datasets and
\* the up-to-date ones are kept in that order, units are started in that
\* order once the scan is over, and a unit is started only while no unit is
\* alive, so at most one unit runs at any instant.
C14_CatalogOrderOneUnitAtATime ==
    /\ [](/\ \A i, j \in 1..Len(datasets_to_process) :
                i < j => NameIndex(datasets_to_process[i].name)
                         < NameIndex(datasets_to_process[j].name)
          /\ \A i, j \in 1..Len(up_to_date_datasets) :
                i < j => NameIndex(up_to_date_datasets[i].name)
                         < NameIndex(up_to_date_datasets[j].name)
          /\ \A i, j \in 1..Len(datasets_to_process) :
                (i < j /\ hist.cur.startCount[datasets_to_process[j].code] > 0)
                => hist.cur.startCount[datasets_to_process[i].code] > 0
          /\ upc \in Running => (spc = "wait" /\ argv = CurDataset))
    /\ [][(run' = run /\ hist'.cur.startCount # hist.cur.startCount)
          => /\ upc \notin Running
             /\ scanIdx > Len(Catalog)
             /\ hist'.cur.startCount[CurDataset.code] = 1]_vars

\* C14 witness: the unit of the second catalog entry is running after the
\* unit of the first was terminated on timeout
C14_Witness ==
    /\ Len(datasets_to_process) >= 2
    /\ spc = "wait"
    /\ procIdx = 2
    /\ upc \in Running
    /\ argv = Catalog[2]
    /\ failed = <<Catalog[1].name>>
    /\ startedAt = hist.cur.start + TIMEOUT

\* C17: the store changes only in a step of a live unit, only under the two
\* keys of the dataset the unit was started for, and never in a step of the
\* Supervisor.
C17_UnitWritesOnlyItsOwnKeys ==
    [][\A k \in Keys :
          state'[k] # state[k]
          => /\ upc \in Running
             /\ k \in {Key(argv.code, "series"), Key(argv.code, "prices")}
             /\ argv' = argv
             /\ supervisorVars' = supervisorVars]_vars

\* C17 witness: the unit of the second catalog entry has written both of
\* its checkpoints while the first entry, whose unit failed, has none
C17_Witness ==
    /\ argv = Catalog[2]
    /\ hist.unit.saved = Kinds
    /\ state[Key(Catalog[2].code, "series")].present
    /\ state[Key(Catalog[2].code, "prices")].present
    /\ ~state[Key(Catalog[1].code, "series")].present
    /\ ~state[Key(Catalog[1].code, "prices")].present
    /\ Catalog[1].name \in Range(failed)

\* C20: a batch run in progress reaches its end with every selected dataset
\* collected and no unit alive, and a unit that is alive is eventually
\* exited or killed.
C20_EveryRunTerminates ==
    /\ (spc \in {"scan", "process", "wait"})
          ~> (/\ spc = "done"
              /\ procIdx > Len(datasets_to_process)
              /\ Len(successful) + Len(failed) = Len(datasets_to_process)
              /\ upc \notin Running)
    /\ (upc \in Running) ~> (upc \in {"exited", "killed"})

\* C20 witness: a run has ended after a unit that did not exit was killed
\* on timeout
C20_Witness ==
    /\ spc = "done"
    /\ upc = "killed"
    /\ hist.unit.outcome = "timeout"
    /\ procIdx > Len(datasets_to_process)

\* C21 (as claimed): a unit that exited with status 0, which the Supervisor
\* reports as succeeded, has written both the series and the prices
\* checkpoint of its dataset, whatever the blob held.
C21_SuccessWritesBothCheckpoints ==
    (hist.unit.outcome = "exited" /\ returncode = 0)
    => /\ LastCollected.name \in Range(successful)
       /\ hist.unit.saved = Kinds
       /\ ~Missing(SeriesState(LastCollected))
       /\ ~Missing(PricesState(LastCollected))

\* the names of the datasets selected for processing by the current scan
ToProcessNames == {datasets_to_process[i].name : i \in 1..Len(datasets_to_process)}

\* C22: once the scan is over every catalog entry is in exactly one of the
\* two lists, exactly once; the lists do not change while the run goes on;
\* no unit is started before the scan is over; and for a dataset reported
\* up-to-date no unit is started or alive and both of its checkpoints stay
\* as they are until the next run starts.
C22_DecidedOnceUpToDateUntouched ==
    /\ [](spc \in {"process", "wait", "done"}
          => /\ scanIdx > Len(Catalog)
             /\ UpToDateNames \cup ToProcessNames = {Catalog[i].name : i \in 1..Len(Catalog)}
             /\ UpToDateNames \cap ToProcessNames = {}
             /\ Len(up_to_date_datasets) + Len(datasets_to_process) = Len(Catalog))
    /\ [](\A i \in 1..Len(Catalog) :
            Catalog[i].name \in UpToDateNames
            => /\ hist.cur.startCount[Catalog[i].code] = 0
               /\ upc \in Running => argv # Catalog[i])
    /\ [](spc = "scan" => (upc \notin Running /\ \A c \in Codes : hist.cur.startCount[c] = 0))
    /\ [][(run' = run /\ spc \in {"process", "wait", "done"})
          => /\ datasets_to_process' = datasets_to_process
             /\ up_to_date_datasets' = up_to_date_datasets]_vars
    /\ [][run' = run
          => \A i \in 1..Len(Catalog) :
                Catalog[i].name \in UpToDateNames
                => /\ SeriesState(Catalog[i])' = SeriesState(Catalog[i])
                   /\ PricesState(Catalog[i])' = PricesState(Catalog[i])]_vars

\* C22 witness: a finished run that reported one dataset up-to-date, with
\* both checkpoints written before the run started, and processed another
\* with success
C22_Witness ==
    /\ spc = "done"
    /\ run >= 2
    /\ Len(up_to_date_datasets) = 1
    /\ Len(successful) = 1
    /\ \E i \in 1..Len(Catalog) :
          /\ Catalog[i].name \in UpToDateNames
          /\ SeriesState(Catalog[i]).last_updated < hist.cur.start
          /\ PricesState(Catalog[i]).last_updated < hist.cur.start

(* ------------------------------------------------------------------ *)
(* Properties of the scan specification                                *)
(* ------------------------------------------------------------------ *)

\* a checkpoint that exists with a last_updated value
HasLastUpdated(st) == st.present /\ st.has_last_updated

\* the age in seconds of a checkpoint at the time of the scan
Age(st) == clock - st.last_updated

\* the larger of two numbers
Max(a, b) == IF a >= b THEN a ELSE b

\* the entries of up_to_date_datasets for a name
Reported(name) ==
    {up_to_date_datasets[i].days_ago :
        i \in {j \in 1..Len(up_to_date_datasets) : up_to_date_datasets[j].name = name}}

\* C5: a scanned dataset is reported up-to-date if and only if both of its
\* checkpoints exist with a last_updated value and both are younger than the
\* window; otherwise (one missing, whatever the other's age, or one aged
\* out) it is selected for processing; the age reported for an up-to-date
\* dataset is the age in days of the older checkpoint, the larger of the two.
C5_UpToDateIffBothFresh ==
    \A i \in 1..Len(Catalog) :
        LET d == Catalog[i]
            s == SeriesState(d)
            p == PricesState(d)
            fresh == /\ HasLastUpdated(s) /\ HasLastUpdated(p)
                     /\ Age(s) < Window /\ Age(p) < Window
        IN IF i < scanIdx
           THEN /\ d.name \in UpToDateNames <=> fresh
                /\ d \in Range(datasets_to_process) <=> ~fresh
                /\ fresh => Reported(d.name) = {Max(Days(Age(s)), Days(Age(p)))}
           ELSE /\ d.name \notin UpToDateNames
                /\ d \notin Range(datasets_to_process)

\* C5 witness: after the scan, one dataset selected because its prices
\* checkpoint is missing although its series checkpoint is fresh, and one
\* reported up-to-date with the age of its older checkpoint, a day more
\* than the age of the newer
C5_Witness ==
    /\ scanIdx > Len(Catalog)
    /\ \E i, j \in 1..Len(Catalog) :
          /\ HasLastUpdated(SeriesState(Catalog[i]))
          /\ Age(SeriesState(Catalog[i])) < Window
          /\ ~PricesState(Catalog[i]).present
          /\ Catalog[i] \in Range(datasets_to_process)
          /\ Catalog[j].name \in UpToDateNames
          /\ Days(Age(SeriesState(Catalog[j]))) = Days(Age(PricesState(Catalog[j]))) + 1
          /\ Reported(Catalog[j].name) = {Days(Age(SeriesState(Catalog[j])))}

\* C6: a scanned dataset with both checkpoints is selected for processing
\* exactly when the age in seconds of its older checkpoint is at least 30
\* days: at exactly 30 days it is selected, at one second less it is not.
C6_StaleFromThirtyDays ==
    \A i \in 1..(scanIdx - 1) :
        LET d == Catalog[i]
            s == SeriesState(d)
            p == PricesState(d)
        IN (HasLastUpdated(s) /\ HasLastUpdated(p))
           => (d \in Range(datasets_to_process)
               <=> Max(Age(s), Age(p)) >= FRESH_DAYS * SECONDS_PER_DAY)

\* C6 witness: after the scan, a dataset whose older checkpoint is exactly
\* 30 days old is selected and one whose older checkpoint is one second
\* younger is reported up-to-date, 29 days old
C6_Witness ==
    /\ scanIdx > Len(Catalog)
    /\ \E i, j \in 1..Len(Catalog) :
          /\ HasLastUpdated(SeriesState(Catalog[i]))
          /\ HasLastUpdated(PricesState(Catalog[i]))
          /\ Max(Age(SeriesState(Catalog[i])), Age(PricesState(Catalog[i]))) = Window
          /\ Catalog[i] \in Range(datasets_to_process)
          /\ HasLastUpdated(SeriesState(Catalog[j]))
          /\ HasLastUpdated(PricesState(Catalog[j]))
          /\ Max(Age(SeriesState(Catalog[j])), Age(PricesState(Catalog[j]))) = Window - 1
          /\ Reported(Catalog[j].name) = {FRESH_DAYS - 1}

(* ------------------------------------------------------------------ *)
(* Properties of the per-line specification                            *)
(* ------------------------------------------------------------------ *)

\* the rows the first n lines of a blob produce, each line taken alone
RECURSIVE MetaAlone(_, _)
MetaAlone(b, n) ==
    IF n = 0 THEN <<>>
    ELSE MetaAlone(b, n - 1) \o ProcessLine(b[n], LineDataset.code, LineDataset.name).meta

RECURSIVE FactsAlone(_, _)
FactsAlone(b, n) ==
    IF n = 0 THEN <<>>
    ELSE FactsAlone(b, n - 1) \o ProcessLine(b[n], LineDataset.code, LineDataset.name).facts

\* a line none of whose values is a number too large for a float
NoHugeValue(line) ==
    \A i \in 1..Len(line.obj.data.items) :
        \A k \in 1..Len(line.obj.data.items[i].items) :
            line.obj.data.items[i].items[k] # HugeInt

\* C10 (as claimed): whatever lines a blob holds (not JSON, not a record,
\* fields missing, data elements that are no pairs, values that are no
\* numbers), no line raises out of either line loop, and the rows
\* accumulated are those each line produces alone.
C10_MalformedLineNeverRaises ==
    (\A i \in 1..Len(blob) : NoHugeValue(blob[i]))
    => /\ acc.raised = ""
       /\ acc.extract_raised = ""
       /\ acc.series_data = MetaAlone(blob, lineIdx - 1)
       /\ acc.prices_data = FactsAlone(blob, lineIdx - 1)

\* the pairs of a data sequence, from element i on, whose value is no
\* sentinel and is accepted by float()
RECURSIVE GoodPairs(_, _)
GoodPairs(items, i) ==
    IF i > Len(items) THEN 0
    ELSE GoodPairs(items, i + 1) +
         (IF /\ items[i].is_list
             /\ Len(items[i].items) = 2
             /\ items[i].items[2] \notin {Str("NM"), Str("NA"), Str(""), Null}
             /\ PyFloat(items[i].items[2]).ok
          THEN 1 ELSE 0)

\* a line that is a JSON object with a series_id and a data sequence
IsSeriesRecord(line) ==
    /\ line.kind = "object"
    /\ line.obj.series_id # Absent
    /\ line.obj.data.present
    /\ line.obj.data.is_list

\* the parsable pairs of the series records among the first n lines
RECURSIVE SumGood(_, _)
SumGood(b, n) ==
    IF n = 0 THEN 0
    ELSE SumGood(b, n - 1) +
         (IF IsSeriesRecord(b[n]) THEN GoodPairs(b[n].obj.data.items, 1) ELSE 0)

\* every line of the blob is blank, broken JSON or a JSON object
OnlyRecords(b) == \A i \in 1..Len(b) : b[i].kind \in {"blank", "badjson", "object"}

\* C11 (as claimed, read in its favour: the record carries a series_id): in
\* a blob of records, the Fact Rows emitted for the lines read so far are as
\* many as the pairs of their data sequences whose value is no sentinel and
\* is numerically parsable, in both line loops.
C11_FactRowsCountParsablePairs ==
    OnlyRecords(blob)
    => /\ Len(acc.prices_data) = SumGood(blob, lineIdx - 1)
       /\ Len(acc.extract_data) = SumGood(blob, lineIdx - 1)

\* the Fact Rows both loops have emitted
FactRows == Range(acc.prices_data) \cup Range(acc.extract_data)

\* C12 (as claimed): every emitted Fact Row has a value that is a number,
\* not NaN, the series_id of a record of the blob, the caller's dataset code
\* and the string form of the first element of a pair of that record whose
\* value is no sentinel.
C12_FactRowIsWellFormed ==
    \A row \in FactRows :
        /\ row.value \notin {"nan", "", "None", "NM", "NA"}
        /\ row.dataset = LineDataset.code
        /\ \E i \in 1..Len(blob) :
              /\ IsSeriesRecord(blob[i])
              /\ row.series_id = blob[i].obj.series_id
              /\ \E k \in 1..Len(blob[i].obj.data.items) :
                    LET date_val == blob[i].obj.data.items[k] IN
                    /\ date_val.is_list
                    /\ Len(date_val.items) = 2
                    /\ date_val.items[2] \notin {Str("NM"), Str("NA"), Str(""), Null}
                    /\ row.timestamp = PyStr(date_val.items[1])

\* the dataset field a Metadata Row of a record is claimed to carry
ClaimedDataset(obj) ==
    IF obj.dataset # Absent THEN obj.dataset
    ELSE IF obj.series_id.t = "str" THEN Str(SplitDot(obj.series_id.v))
    ELSE Absent

\* the Metadata Rows of a flow are rows of records of the blob with the
\* dataset field claimed for them
DatasetDerived(rows) ==
    \A j \in 1..Len(rows) :
        \E i \in 1..Len(blob) :
            /\ blob[i].kind = "object"
            /\ rows[j].series_id = blob[i].obj.series_id
            /\ rows[j].dataset = ClaimedDataset(blob[i].obj)

\* C13 (as claimed): in every flow that produces Metadata Rows, that of
\* extract_series_metadata and that of process_dataset, the row of a record
\* with a series_id and no dataset field carries the part of series_id before
\* its first '.', a record's own dataset field is kept, and a record without
\* series_id gets none.
C13_DatasetDerivedInEveryFlow ==
    /\ DatasetDerived(acc.meta_data)
    /\ DatasetDerived(acc.series_data)

\* C18: in the line loop of process_dataset, a record that lacks series_id,
\* or lacks data, or whose data is no sequence, appends exactly one Metadata
\* Row (its own) and no Fact Row, raises nothing, and the loop goes on to
\* the next line.
C18_NoSeriesDataOneMetadataRow ==
    [][(/\ lineIdx <= Len(blob)
        /\ acc.raised = ""
        /\ blob[lineIdx].kind = "object"
        /\ \/ blob[lineIdx].obj.series_id = Absent
           \/ ~blob[lineIdx].obj.data.present
           \/ ~blob[lineIdx].obj.data.is_list)
       => /\ acc'.raised = ""
          /\ Len(acc'.series_data) = Len(acc.series_data) + 1
          /\ SubSeq(acc'.series_data, 1, Len(acc.series_data)) = acc.series_data
          /\ acc'.series_data[Len(acc'.series_data)].series_id = blob[lineIdx].obj.series_id
          /\ acc'.prices_data = acc.prices_data
          /\ lineIdx' = lineIdx + 1]_vars

\* C18 witness: a record without series_id but with a data sequence gave one
\* Metadata Row and no Fact Row, and the line after it gave its rows
C18_Witness ==
    /\ lineIdx = 3
    /\ blob[1].kind = "object"
    /\ blob[1].obj.series_id = Absent
    /\ blob[1].obj.data.is_list
    /\ blob[2] = BlobFacts[1]
    /\ acc.raised = ""
    /\ Len(acc.series_data) = 2
    /\ Len(acc.prices_data) = 1

(* ------------------------------------------------------------------ *)
(* Properties of the bundled flow                                      *)
(* ------------------------------------------------------------------ *)

\* C15 (as claimed, in the bundled flow): a run in which the fetch of some
\* dataset's bundle failed writes no checkpoint covering that dataset and
\* has nothing uploaded.
C15_FetchFailurePropagates ==
    bhist.fetchFailed # {} => (bhist.saves = 0 /\ ~bhist.uploaded)

\* C16 (as claimed): in a bundled run the checkpoint of the key is written
\* at most once, and only when the table has been uploaded.
C16_BundledCheckpointAfterUpload ==
    /\ bhist.saves <= 1
    /\ bhist.saves > 0 => bhist.uploaded

(* ------------------------------------------------------------------ *)
(* Properties of the units under every host                            *)
(* ------------------------------------------------------------------ *)

\* the configured budget in KiB: 4 GiB when none or an invalid one is set
Budget(env) ==
    CASE env = "2" -> 2 * KIB_PER_GIB
      [] env = "0.5" -> KIB_PER_GIB \div 2
      [] OTHER -> 4 * KIB_PER_GIB

\* C19 (as claimed): on every host and for every configured budget the
\* Supervisor starts its units, and every unit alive runs under a resource
\* limit equal to the budget.
C19_EveryUnitHasCeiling ==
    /\ spc # "crashed"
    /\ upc \in Running => (rlimit.resource # "none" /\ rlimit.limit = Budget(environ))

====
